---- MODULE Spec2Model ----
(***************************************************************************)
(* A model of gmusicapi's protocol layer: the jsarray repair               *)
(* (utils/jsarray.py), the metadata expectation registry and the web       *)
(* client transaction builders (protocol.py, Metadata_Expectations and     *)
(* WC_Protocol) and the REST response decoding (protocol.py, SJ_Protocol). *)
(*                                                                         *)
(* Every operation modelled here is a function of its arguments, so each   *)
(* specification draws the argument in Init and has one action per         *)
(* operation that applies it:  arg  is the argument, op the operation that *)
(* was applied ("none" before the call), ret its outcome (a returned value *)
(* or a raised exception) and log the warnings handed to the logger.       *)
(* song_schema is the dict of that name that the class body of WC_Protocol *)
(* builds when protocol.py is imported, entry_ids the list that is the     *)
(* default of deletesong.build_transaction's parameter of that name, and   *)
(* held the names of those two objects that a returned value has handed to *)
(* a caller.  mac is the field of an MM_Protocol instance, heap the        *)
(* protobuf messages that exist (a message is known by its position in     *)
(* heap) and handed the messages that callers hold.                        *)
(***************************************************************************)
EXTENDS Integers, Sequences, FiniteSets, TLC

VARIABLES arg, op, ret, log, song_schema, entry_ids, held, mac, heap, handed

vars == <<arg, op, ret, log, song_schema, entry_ids, held, mac, heap, handed>>

\* The objects that protocol.py creates when it is imported and that every
\* caller shares, with the names of those that callers hold a reference to.
wc_state == <<song_schema, entry_ids, held>>

\* An MM_Protocol instance, the protobuf messages and those handed out.
mm_state == <<mac, heap, handed>>

\* The outcome of a call: nothing yet, a returned value, a raised exception.
NoRet == [kind |-> "none"]

Return(v) == [kind |-> "return", val |-> v]

Raise(e) == [kind |-> "raise", exc |-> e]

Last(q) == q[Len(q)]

RECURSIVE Flatten(_)
Flatten(qq) == IF qq = <<>> THEN <<>> ELSE Head(qq) \o Flatten(Tail(qq))

(***************************************************************************)
(* utils/jsarray.py                                                        *)
(*                                                                         *)
(* A text is a sequence of characters, a token the sequence of characters  *)
(* of its text (t[1] in the source).                                       *)
(***************************************************************************)
MaxLen == 5

Quote == "\""

Chars == {"[", "]", ",", "1", Quote}

Texts == UNION {[1..n -> Chars] : n \in 0..MaxLen}

Comma == <<",">>

LBracket == <<"[">>

RBracket == <<"]">>

Null == <<"n", "u", "l", "l">>

EndMarker == <<>>

\* First position >= i of s that holds c, or 0.
RECURSIVE Find(_, _, _)
Find(s, c, i) ==
  IF i > Len(s) THEN 0 ELSE IF s[i] = c THEN i ELSE Find(s, c, i + 1)

\* Last position of the run of digits that starts at i.
RECURSIVE NumberEnd(_, _)
NumberEnd(s, i) ==
  IF i < Len(s) /\ s[i + 1] = "1" THEN NumberEnd(s, i + 1) ELSE i

\* Whether a triple quote starts at position i.
IsTriple(s, i) ==
  i + 2 <= Len(s) /\ s[i] = Quote /\ s[i + 1] = Quote /\ s[i + 2] = Quote

\* First position >= i of s where a triple quote starts, or 0.
RECURSIVE FindTriple(_, _)
FindTriple(s, i) ==
  IF i > Len(s) THEN 0 ELSE IF IsTriple(s, i) THEN i ELSE FindTriple(s, i + 1)

\* tokenize's match at position i, as the last position of the token that
\* starts there: a NUMBER is a maximal run of digits, a triple-quoted STRING
\* runs to the next triple quote (0 when there is none: the string continues
\* past the end of the input), a STRING runs from a quote to the next quote, a
\* quote that is never closed is an ERRORTOKEN of one character, everything
\* else is an OP of one character.
TokenEnd(s, i) ==
  IF s[i] = "1" THEN NumberEnd(s, i)
  ELSE IF IsTriple(s, i)
    THEN IF FindTriple(s, i + 3) = 0 THEN 0 ELSE FindTriple(s, i + 3) + 2
  ELSE IF s[i] = Quote /\ Find(s, Quote, i + 1) # 0 THEN Find(s, Quote, i + 1)
  ELSE i

\* The tokens tokenize yields from position i on.
RECURSIVE Lex(_, _)
Lex(s, i) ==
  IF i > Len(s) \/ TokenEnd(s, i) = 0 THEN <<>>
  ELSE <<SubSeq(s, i, TokenEnd(s, i))>> \o Lex(s, TokenEnd(s, i) + 1)

\* Whether the scan from position i ends inside a triple-quoted string.
RECURSIVE EofInString(_, _)
EofInString(s, i) ==
  IF i > Len(s) THEN FALSE
  ELSE IF TokenEnd(s, i) = 0 THEN TRUE
  ELSE EofInString(s, TokenEnd(s, i) + 1)

\* tokenize's bracket depth after the tokens: +1 for an opening bracket, -1 for
\* a closing one (it may go negative).
RECURSIVE ParenLev(_)
ParenLev(toks) ==
  IF toks = <<>> THEN 0
  ELSE (IF Head(toks) = LBracket THEN 1 ELSE IF Head(toks) = RBracket THEN -1 ELSE 0)
       + ParenLev(Tail(toks))

\* generate_tokens(StringIO(s).readline): the tokens of s followed by the
\* ENDMARKER, whose text is empty; at the end of the input tokenize raises
\* TokenError when a triple-quoted string is open ("EOF in multi-line string")
\* or the bracket depth is not 0 ("EOF in multi-line statement").
generate_tokens(s) ==
  [raised |-> EofInString(s, 1) \/ ParenLev(Lex(s, 1)) # 0,
   toks |-> Lex(s, 1) \o <<EndMarker>>]

\* InsertsNull without its second clause (the comma that opens an array).
InsertsNull_DoubleCommaOnly(out, t) ==
  /\ out # <<>>
  /\ t = Comma /\ Last(out) = Comma

\* The test of to_json's loop: the token is a comma and the last emitted token
\* is a comma or an opening bracket.
InsertsNull(out, t) ==
  /\ out # <<>>
  /\ \/ t = Comma /\ Last(out) = Comma
     \/ Last(out) = LBracket /\ t = Comma

\* to_json's loop over the tokens, out being the list built so far.
RECURSIVE RepairLoop(_, _)
RepairLoop(toks, out) ==
  IF toks = <<>> THEN out
  ELSE RepairLoop(Tail(toks),
                  (IF InsertsNull(out, Head(toks)) THEN Append(out, Null) ELSE out)
                    \o <<Head(toks)>>)

\* to_json(s): ''.join(out), or the tokenizer's exception.
to_json(s) ==
  IF generate_tokens(s).raised THEN Raise("TokenError")
  ELSE Return(Flatten(RepairLoop(generate_tokens(s).toks, <<>>)))

(***************************************************************************)
(* json.loads on the characters the repair can emit: a value is a number   *)
(* (digits), a string (quote to quote), null, or an array of values        *)
(* separated by single commas.  A parse is [ok, val, rest].                *)
(***************************************************************************)
ParseFail == [ok |-> FALSE]

IsPrefix(p, s) == Len(p) <= Len(s) /\ SubSeq(s, 1, Len(p)) = p

Drop(s, n) == SubSeq(s, n + 1, Len(s))

RECURSIVE ParseValue(_), ParseElems(_, _)
ParseValue(s) ==
  IF s = <<>> THEN ParseFail
  ELSE IF Head(s) = "1"
    THEN [ok |-> TRUE, val |-> [t |-> "number", v |-> SubSeq(s, 1, NumberEnd(s, 1))],
          rest |-> Drop(s, NumberEnd(s, 1))]
  ELSE IF Head(s) = Quote
    THEN IF Find(s, Quote, 2) = 0 THEN ParseFail
         ELSE [ok |-> TRUE, val |-> [t |-> "string", v |-> SubSeq(s, 2, Find(s, Quote, 2) - 1)],
               rest |-> Drop(s, Find(s, Quote, 2))]
  ELSE IF IsPrefix(Null, s)
    THEN [ok |-> TRUE, val |-> [t |-> "null"], rest |-> Drop(s, Len(Null))]
  ELSE IF Head(s) = "["
    THEN IF Len(s) >= 2 /\ s[2] = "]"
         THEN [ok |-> TRUE, val |-> [t |-> "array", v |-> <<>>], rest |-> Drop(s, 2)]
         ELSE ParseElems(Tail(s), <<>>)
  ELSE ParseFail

ParseElems(s, acc) ==
  LET r == ParseValue(s) IN
  IF ~r.ok THEN ParseFail
  ELSE IF r.rest = <<>> THEN ParseFail
  ELSE IF Head(r.rest) = "," THEN ParseElems(Tail(r.rest), Append(acc, r.val))
  ELSE IF Head(r.rest) = "]"
    THEN [ok |-> TRUE, val |-> [t |-> "array", v |-> Append(acc, r.val)], rest |-> Tail(r.rest)]
  ELSE ParseFail

\* json.loads(text): the value of the whole text, or ValueError.
json_loads(text) ==
  IF ParseValue(text).ok /\ ParseValue(text).rest = <<>>
  THEN Return(ParseValue(text).val)
  ELSE Raise("ValueError")

\* loads(s): json.loads(to_json(s)); an exception of either call propagates.
loads(s) ==
  IF to_json(s).kind = "raise" THEN to_json(s) ELSE json_loads(to_json(s).val)

(***************************************************************************)
(* protocol.py, SJ_Protocol: decoding of REST responses.                   *)
(*                                                                         *)
(* A response is text that is not JSON, a JSON array, or a JSON object; an *)
(* object is a function from its keys to their values.  Python values that *)
(* a call returns are records tagged with py.                              *)
(***************************************************************************)
MaxItems == 2

MaxMutations == 3

PyNone == [py |-> "None"]

PyTrue == [py |-> "True"]

PyList(q) == [py |-> "list", items |-> q]

PyClass(name) == [py |-> "class", name |-> name]

SeqsUpTo(S, n) == UNION {[1..k -> S] : k \in 0..n}

\* The dicts that hold key k with a value of vs, or do not hold it.
Opt(k, vs) == {<<>>} \cup {k :> v : v \in vs}

\* The kind() of the six model classes (models/track.py, models/playlist.py).
TrackKind == "sj#track"

TrackListKind == "sj#trackList"

PlaylistKind == "sj#playlist"

PlaylistListKind == "sj#playlistList"

PlaylistEntryKind == "sj#playlistEntry"

PlaylistEntryListKind == "sj#playlistEntryList"

SupportedKinds ==
  {TrackKind, TrackListKind, PlaylistKind, PlaylistListKind,
   PlaylistEntryKind, PlaylistEntryListKind}

\* Kind strings a response may carry that no model class declares.
OtherKinds == {"sj#album", "SJ#TRACK", ""}

ItemNames == {"x", "y"}

ResponseCodes == {"OK", "ERROR"}

MutationIds == {"a", "b"}

\* The entries of a mutate_response list.
Mutations ==
  {c @@ i : c \in Opt("response_code", ResponseCodes), i \in Opt("id", MutationIds)}

\* Objects of the entity endpoints and objects of the batch endpoints.
KindObjects ==
  {k @@ i : k \in Opt("kind", SupportedKinds \cup OtherKinds),
            i \in Opt("items", SeqsUpTo(ItemNames, MaxItems))}

MutateObjects ==
  {<<>>} \cup {"mutate_response" :> q : q \in SeqsUpTo(Mutations, MaxMutations)}

Responses ==
  {[t |-> "invalid"], [t |-> "array"]}
    \cup {[t |-> "object", m |-> o] : o \in KindObjects \cup MutateObjects}

\* The list classes among the model classes, and the class of their items.
ListModels == {"TrackList", "PlaylistList", "PlaylistEntryList"}

ItemModel(model) ==
  CASE model = "TrackList" -> "Track"
    [] model = "PlaylistList" -> "Playlist"
    [] model = "PlaylistEntryList" -> "PlaylistEntry"

\* model(jsdata): an instance of a model class.  An item class wraps the
\* object; a list class holds one instance of its item class per element of
\* the object's items.
Construct(model, jsdata) ==
  IF model \notin ListModels THEN Return([py |-> model, json |-> jsdata])
  ELSE IF "items" \notin DOMAIN jsdata THEN Raise("KeyError")
  ELSE Return([py |-> model,
               items |-> [i \in 1..Len(jsdata["items"]) |->
                            [py |-> ItemModel(model), json |-> jsdata["items"][i]]]])

\* json.loads(response) followed by jsdata[key].
JsonKey(response, key) ==
  IF response.t = "invalid" THEN Raise("ValueError")
  ELSE IF response.t = "array" THEN Raise("TypeError")
  ELSE IF key \notin DOMAIN response.m THEN Raise("KeyError")
  ELSE Return(response.m[key])

\* _kind_to_model without its last branch: an unknown kind falls through.
kind_to_model_NoElse(kind) ==
  IF kind = TrackKind THEN Return(PyClass("Track"))
  ELSE IF kind = TrackListKind THEN Return(PyClass("TrackList"))
  ELSE IF kind = PlaylistKind THEN Return(PyClass("Playlist"))
  ELSE IF kind = PlaylistListKind THEN Return(PyClass("PlaylistList"))
  ELSE IF kind = PlaylistEntryKind THEN Return(PyClass("PlaylistEntry"))
  ELSE Return(PyClass("PlaylistEntryList"))

kind_to_model(kind) ==
  IF kind = TrackKind THEN Return(PyClass("Track"))
  ELSE IF kind = TrackListKind THEN Return(PyClass("TrackList"))
  ELSE IF kind = PlaylistKind THEN Return(PyClass("Playlist"))
  ELSE IF kind = PlaylistListKind THEN Return(PyClass("PlaylistList"))
  ELSE IF kind = PlaylistEntryKind THEN Return(PyClass("PlaylistEntry"))
  ELSE IF kind = PlaylistEntryListKind THEN Return(PyClass("PlaylistEntryList"))
  ELSE Raise("ValueError")

\* self._kind_to_model(jsdata['kind'])(jsdata) for a response: the instance,
\* or the first exception on the way.
Decode(response) ==
  IF JsonKey(response, "kind").kind = "raise" THEN JsonKey(response, "kind")
  ELSE IF kind_to_model(JsonKey(response, "kind").val).kind = "raise"
    THEN kind_to_model(JsonKey(response, "kind").val)
  ELSE Construct(kind_to_model(JsonKey(response, "kind").val).val.name, response.m)

\* Select without telling the list from the item: the instance is returned.
Select_Wrapper(response, listModel, itemModel) ==
  IF Decode(response).kind = "raise" THEN Decode(response)
  ELSE IF Decode(response).val.py \in {listModel, itemModel} THEN Decode(response)
  ELSE Return(PyNone)

\* The body shared by tracks, playlists and playlist_entries: the items of an
\* instance of the list class, an instance of the item class itself, and None
\* (no branch taken) for an instance of any other class.
Select(response, listModel, itemModel) ==
  IF Decode(response).kind = "raise" THEN Decode(response)
  ELSE IF Decode(response).val.py = listModel
    THEN Return(PyList(Decode(response).val.items))
  ELSE IF Decode(response).val.py = itemModel THEN Decode(response)
  ELSE Return(PyNone)

tracks(response) == Select(response, "TrackList", "Track")

playlists(response) == Select(response, "PlaylistList", "Playlist")

playlist_entries(response) == Select(response, "PlaylistEntryList", "PlaylistEntry")

playlist_entry(response) == playlist_entries(response)

\* MutateStep that goes on after an entry that is not OK.
MutateStep_SkipFailed(mutation, ids) ==
  IF "response_code" \notin DOMAIN mutation THEN Raise("KeyError")
  ELSE IF mutation["response_code"] # "OK" THEN Return(ids)
  ELSE IF "id" \in DOMAIN mutation THEN Return(Append(ids, mutation["id"]))
  ELSE Return(ids)

\* MutateStep that puts the id in front of the ids collected so far.
MutateStep_Prepend(mutation, ids) ==
  IF "response_code" \notin DOMAIN mutation THEN Raise("KeyError")
  ELSE IF mutation["response_code"] # "OK" THEN Raise("ValueError")
  ELSE IF "id" \in DOMAIN mutation THEN Return(<<mutation["id"]>> \o ids)
  ELSE Return(ids)

\* One pass of _handle_mutate_response's loop: the ids after the entry, or
\* the exception it raises.
MutateStep(mutation, ids) ==
  IF "response_code" \notin DOMAIN mutation THEN Raise("KeyError")
  ELSE IF mutation["response_code"] # "OK" THEN Raise("ValueError")
  ELSE IF "id" \in DOMAIN mutation THEN Return(Append(ids, mutation["id"]))
  ELSE Return(ids)

RECURSIVE MutateLoop(_, _)
MutateLoop(mutations, ids) ==
  IF mutations = <<>> THEN Return(PyList(ids))
  ELSE IF MutateStep(Head(mutations), ids).kind = "raise"
    THEN MutateStep(Head(mutations), ids)
  ELSE MutateLoop(Tail(mutations), MutateStep(Head(mutations), ids).val)

\* _handle_mutate_response(jsobj); for a JSON array, 'mutate_response' in
\* jsobj is a test of list membership, which is false.
handle_mutate_response(jsobj) ==
  IF jsobj.t = "array" \/ "mutate_response" \notin DOMAIN jsobj.m THEN Return(PyTrue)
  ELSE MutateLoop(jsobj.m["mutate_response"], <<>>)

playlist_batch(response) ==
  IF response.t = "invalid" THEN Raise("ValueError")
  ELSE handle_mutate_response(response)

plentries_batch(response) ==
  IF response.t = "invalid" THEN Raise("ValueError")
  ELSE handle_mutate_response(response)

(***************************************************************************)
(* protocol.py, Metadata_Expectations: the registry of field expectations. *)
(*                                                                         *)
(* An attribute name is the sequence of the pieces of its text between the *)
(* occurrences of "gm_": rating is <<"rating">> and gm_type is             *)
(* <<"", "type">>, so that name.split('gm_') is the name itself and        *)
(* "gm_" + key is key with an empty piece put in front.                    *)
(***************************************************************************)
PyStr(s) == [py |-> "str", v |-> s]

PyTuple(q) == [py |-> "tuple", items |-> q]

\* _DefinesNameMetaclass.__new__ taking the first piece: gm_type gets "".
DefinesName_FirstPiece(clsname) == <<Head(clsname)>>

\* _DefinesNameMetaclass.__new__: dct['name'] = name.split('gm_')[-1].
DefinesName(clsname) == <<Last(clsname)>>

\* class _Metadata_Expectation: the defaults every expectation inherits.
Metadata_Expectation ==
  [py |-> "class", base |-> "_Metadata_Expectation",
   name |-> DefinesName(<<"_Metadata_Expectation">>),
   val_type |-> "string", mutable |-> TRUE, allowed_values |-> PyNone,
   volatile |-> FALSE, depends_on |-> PyNone, optional |-> FALSE]

\* The statement class clsname(_Metadata_Expectation) with the attributes its
\* body sets: the class, to which the metaclass adds name, bound to clsname in
\* the enclosing namespace.
Declare(clsname, body) ==
  clsname :> (("name" :> DefinesName(clsname)) @@ body @@ [clsname |-> clsname]
                @@ Metadata_Expectation)

\* The members of Metadata_Expectations that are no classes: its two
\* classmethods and the strings __doc__ and __module__.
OtherMembers ==
  (<<"get_expectation">> :> [py |-> "method"])
    @@ (<<"get_all_expectations">> :> [py |-> "method"])
    @@ (<<"__doc__">> :> [py |-> "str"])
    @@ (<<"__module__">> :> [py |-> "str"])

\* The namespace of class Metadata_Expectations, attribute name to member:
\* the expectation classes in source order (no name is bound twice) and the
\* other members.
Members ==
  Declare(<<"rating">>, [val_type |-> "integer", allowed_values |-> PyTuple(<<0, 1, 5>>)]) @@
  Declare(<<"composer">>, <<>>) @@
  Declare(<<"album">>, <<>>) @@
  Declare(<<"albumArtist">>, <<>>) @@
  Declare(<<"genre">>, <<>>) @@
  Declare(<<"name">>, <<>>) @@
  Declare(<<"artist">>, <<>>) @@
  Declare(<<"disc">>, [val_type |-> "integer", optional |-> TRUE]) @@
  Declare(<<"year">>, [val_type |-> "integer", optional |-> TRUE]) @@
  Declare(<<"track">>, [val_type |-> "integer", optional |-> TRUE]) @@
  Declare(<<"totalTracks">>, [val_type |-> "integer", optional |-> TRUE]) @@
  Declare(<<"playCount">>, [val_type |-> "integer"]) @@
  Declare(<<"totalDiscs">>, [val_type |-> "integer", optional |-> TRUE]) @@
  Declare(<<"durationMillis">>, [val_type |-> "integer", mutable |-> FALSE]) @@
  Declare(<<"comment">>, [mutable |-> FALSE]) @@
  Declare(<<"id">>, [mutable |-> FALSE]) @@
  Declare(<<"deleted">>, [val_type |-> "boolean", mutable |-> FALSE]) @@
  Declare(<<"creationDate">>, [val_type |-> "integer", mutable |-> FALSE]) @@
  Declare(<<"albumArtUrl">>, [mutable |-> FALSE, optional |-> TRUE]) @@
  Declare(<<"", "type">>, [val_type |-> "integer", mutable |-> FALSE]) @@
  Declare(<<"beatsPerMinute">>, [val_type |-> "integer", mutable |-> FALSE]) @@
  Declare(<<"url">>, [mutable |-> FALSE]) @@
  Declare(<<"playlistEntryId">>, [mutable |-> FALSE, optional |-> TRUE]) @@
  Declare(<<"title">>, [depends_on |-> PyStr("name")]) @@
  Declare(<<"titleNorm">>, [depends_on |-> PyStr("name")]) @@
  Declare(<<"albumArtistNorm">>, [depends_on |-> PyStr("albumArtist")]) @@
  Declare(<<"albumNorm">>, [depends_on |-> PyStr("album")]) @@
  Declare(<<"artistNorm">>, [depends_on |-> PyStr("artist")]) @@
  Declare(<<"lastPlayed">>, [val_type |-> "integer", mutable |-> FALSE, volatile |-> TRUE]) @@
  OtherMembers

\* The expectation classes declared.
Declared ==
  {Members[n] : n \in {k \in DOMAIN Members : Members[k].py = "class"}}

\* dir(cls): the attribute names, sorted.
DirNames ==
  << <<"__doc__">>, <<"__module__">>, <<"album">>, <<"albumArtUrl">>,
     <<"albumArtist">>, <<"albumArtistNorm">>, <<"albumNorm">>, <<"artist">>,
     <<"artistNorm">>, <<"beatsPerMinute">>, <<"comment">>, <<"composer">>,
     <<"creationDate">>, <<"deleted">>, <<"disc">>, <<"durationMillis">>,
     <<"genre">>, <<"get_all_expectations">>, <<"get_expectation">>, <<"", "type">>,
     <<"id">>, <<"lastPlayed">>, <<"name">>, <<"playCount">>,
     <<"playlistEntryId">>, <<"rating">>, <<"title">>, <<"titleNorm">>,
     <<"totalDiscs">>, <<"totalTracks">>, <<"track">>, <<"url">>,
     <<"year">> >>

\* getattr(cls, key).
GetAttr(key) ==
  IF key \in DOMAIN Members THEN Return(Members[key]) ELSE Raise("AttributeError")

\* "gm_" + key.
GmPrefixed(key) == <<"">> \o key

\* try: first, except AttributeError: second.
OrElse(first, second) == IF first.kind = "return" THEN first ELSE second

\* The first try block of get_expectation: the literal name, then the
\* prefixed one, whose AttributeError is not caught.
Lookup(key) == OrElse(GetAttr(key), GetAttr(GmPrefixed(key)))

\* The second try block of get_expectation for the member found: issubclass
\* raises TypeError for a member that is no class, which gives None; a class
\* that is no expectation reaches the end of the function, which gives None
\* too.
IfExpectation(expt) ==
  IF expt.kind = "raise" THEN expt
  ELSE IF expt.val.py # "class" THEN Return(PyNone)
  ELSE IF expt.val.base = "_Metadata_Expectation" THEN expt
  ELSE Return(PyNone)

\* Metadata_Expectations.get_expectation(key).
get_expectation(key) == IfExpectation(Lookup(key))

\* The body of the loop of get_all_expectations for one member: the dict
\* with the member added under its name, if it is an expectation.
WithMember(member, expts) ==
  IF member.val = PyNone THEN expts ELSE (member.val.name :> member.val) @@ expts

\* The loop of get_all_expectations over the names still to visit; no name
\* of dir() makes get_expectation raise.
RECURSIVE AllExpectationsLoop(_, _)
AllExpectationsLoop(names, expts) ==
  IF names = <<>> THEN Return(expts)
  ELSE IF get_expectation(Head(names)).kind = "raise"
    THEN get_expectation(Head(names))
  ELSE AllExpectationsLoop(Tail(names),
                           WithMember(get_expectation(Head(names)), expts))

\* Metadata_Expectations.get_all_expectations().
get_all_expectations == AllExpectationsLoop(DirNames, <<>>)

(***************************************************************************)
(* protocol.py, WC_Protocol: the shared schemas, validation against them   *)
(* and the transaction builders that use them.                             *)
(***************************************************************************)
MaxRecords == 2

MaxSongs == 2

\* _Metadata_Expectation.get_schema(cls).
get_schema(cls) ==
  ("type" :> cls.val_type)
    @@ (IF cls.val_type = "string" THEN "blank" :> TRUE ELSE <<>>)
    @@ (IF cls.optional THEN "required" :> FALSE ELSE <<>>)

\* The properties that the loop over get_all_expectations().items() fills
\* in: name to expt.get_schema().
Properties(expts) == [n \in DOMAIN expts |-> get_schema(expts[n])]

\* song_schema that leaves additionalProperties out.
SongSchemaAtImport_Open ==
  [type |-> "object", properties |-> Properties(get_all_expectations.val)]

\* WC_Protocol.song_schema as the class body leaves it: the literal, and the
\* properties that the loop fills in.
SongSchemaAtImport ==
  [type |-> "object",
   properties |-> Properties(get_all_expectations.val),
   additionalProperties |-> FALSE]

\* WC_Protocol.song_array, whose items are the song_schema dict itself.
song_array == [type |-> "array", items |-> song_schema]

\* validictory's type test; a JSON value is a record tagged with t.
TypeOk(type, data) ==
  \/ type = "any"
  \/ type = data.t
  \/ type = "number" /\ data.t = "integer"

\* validictory.validate(data, schema) succeeding: the type, blank strings,
\* the properties (required unless the schema says otherwise), the additional
\* properties (refused when the schema says False) and the items.
RECURSIVE Validates(_, _)
Validates(schema, data) ==
  /\ TypeOk(schema["type"], data)
  /\ (data.t = "string" /\ data.v = "") =>
       ("blank" \in DOMAIN schema /\ schema["blank"])
  /\ (data.t = "object" /\ "properties" \in DOMAIN schema) =>
       \A n \in DOMAIN schema["properties"] :
         IF n \in DOMAIN data.m THEN Validates(schema["properties"][n], data.m[n])
         ELSE "required" \in DOMAIN schema["properties"][n]
              /\ ~schema["properties"][n]["required"]
  /\ (/\ data.t = "object"
      /\ "properties" \in DOMAIN schema
      /\ "additionalProperties" \in DOMAIN schema
      /\ schema["additionalProperties"] = FALSE) =>
       DOMAIN data.m \subseteq DOMAIN schema["properties"]
  /\ (data.t = "array" /\ "items" \in DOMAIN schema) =>
       \A i \in 1..Len(data.v) : Validates(schema["items"], data.v[i])

\* validictory.validate(data, schema): None, or ValidationError.
validate(data, schema) ==
  IF Validates(schema, data) THEN Return(PyNone) ELSE Raise("ValidationError")

\* loadplaylist.build_transaction(playlist_id).
loadplaylist_build_transaction(playlist_id) ==
  Return([req |-> [id |-> playlist_id],
          res |-> [type |-> "object",
                   properties |->
                     (<<"continuation">> :> [type |-> "boolean"])
                       @@ (<<"playlist">> :> song_array)
                       @@ (<<"playlistId">> :> [type |-> "string"])
                       @@ (<<"unavailableTrackCount">> :> [type |-> "integer"])]])

\* song[key] and key in song, a song being its items in iteration order.
HasKey(song, key) == \E i \in 1..Len(song) : song[i][1] = key

ValueOf(song, key) == song[CHOOSE i \in 1..Len(song) : song[i][1] = key][2]

Items(tuple) == {tuple.items[i] : i \in 1..Len(tuple.items)}

\* The test of modifyentries' inner loop for a value under the expectation
\* found for its key: "ok", "warn" (a warning is logged), or the exception
\* raised.  The message of the warning reads song["id"].
CheckValue(expt, song, i) ==
  IF expt.kind = "raise" THEN "AttributeError"
  ELSE IF expt.val = PyNone THEN "AttributeError"
  ELSE IF expt.val.allowed_values = PyNone THEN "ok"
  ELSE IF expt.val.allowed_values.items = <<>> THEN "ok"
  ELSE IF song[i][2] \in Items(expt.val.allowed_values) THEN "ok"
  ELSE IF HasKey(song, <<"id">>) THEN "warn"
  ELSE "KeyError"

\* The body of modifyentries' inner loop for item i of song.
CheckKey(song, i) == CheckValue(get_expectation(song[i][1]), song, i)

Warning(song, i) ==
  [logger |-> "modifyentries", key |-> song[i][1], value |-> song[i][2],
   id |-> ValueOf(song, <<"id">>)]

\* modifyentries' two loops from item ki of song si on: the warnings logged,
\* and the exception that ended the loops, if any.
RECURSIVE CheckSongs(_, _, _, _)
CheckSongs(songs, si, ki, lg) ==
  IF si > Len(songs) THEN [exc |-> "none", log |-> lg]
  ELSE IF ki > Len(songs[si]) THEN CheckSongs(songs, si + 1, 1, lg)
  ELSE IF CheckKey(songs[si], ki) \in {"AttributeError", "KeyError"}
    THEN [exc |-> CheckKey(songs[si], ki), log |-> lg]
  ELSE CheckSongs(songs, si, ki + 1,
                  IF CheckKey(songs[si], ki) = "warn"
                  THEN Append(lg, Warning(songs[si], ki)) ELSE lg)

\* What modifyentries.build_transaction returns: the request for songs and
\* the schema of the response.
Transaction(songs) ==
  [req |-> [entries |-> songs],
   res |-> [type |-> "object",
            properties |-> (<<"success">> :> [type |-> "boolean"])
                             @@ (<<"songs">> :> song_array)]]

\* The outcome of modifyentries.build_transaction(songs) whose loops ended
\* as checked, and the warnings.
Built(checked, songs) ==
  [ret |-> IF checked.exc # "none" THEN Raise(checked.exc)
           ELSE Return(Transaction(songs)),
   log |-> checked.log]

\* modifyentries.build_transaction(songs): the outcome and the warnings.
modifyentries_build_transaction(songs) ==
  Built(CheckSongs(songs, 1, 1, <<>>), songs)

\* protocol.py is imported: the class bodies have run, the default of
\* entry_ids has been evaluated, and no caller holds anything.
AtImport ==
  /\ song_schema = SongSchemaAtImport
  /\ entry_ids = <<"">>
  /\ held = {}

\* No MM_Protocol has been constructed.
NoInstance ==
  /\ mac = <<>>
  /\ heap = <<>>
  /\ handed = {}

(***************************************************************************)
(* The calls of jsarray.py: one text, and one call of to_json or loads.    *)
(***************************************************************************)
JsInit ==
  /\ AtImport
  /\ NoInstance
  /\ arg \in Texts
  /\ op = "none"
  /\ ret = NoRet
  /\ log = <<>>

CallToJson ==
  /\ op = "none"
  /\ op' = "to_json"
  /\ ret' = to_json(arg)
  /\ UNCHANGED <<arg, log, wc_state, mm_state>>

CallLoads ==
  /\ op = "none"
  /\ op' = "loads"
  /\ ret' = loads(arg)
  /\ UNCHANGED <<arg, log, wc_state, mm_state>>

JsNext == CallToJson \/ CallLoads

SpecJs == JsInit /\ [][JsNext]_vars

(***************************************************************************)
(* The calls of SJ_Protocol: one response, decoded by one operation.       *)
(***************************************************************************)
SjInit ==
  /\ AtImport
  /\ NoInstance
  /\ arg \in Responses
  /\ op = "none"
  /\ ret = NoRet
  /\ log = <<>>

SjCall(name, outcome) ==
  /\ op = "none"
  /\ op' = name
  /\ ret' = outcome
  /\ UNCHANGED <<arg, log, wc_state, mm_state>>

CallKindToModel ==
  /\ arg.t = "object" /\ "kind" \in DOMAIN arg.m
  /\ SjCall("_kind_to_model", kind_to_model(arg.m["kind"]))

CallTracks == SjCall("tracks", tracks(arg))

CallPlaylists == SjCall("playlists", playlists(arg))

CallPlaylistEntries == SjCall("playlist_entries", playlist_entries(arg))

CallPlaylistEntry == SjCall("playlist_entry", playlist_entry(arg))

CallPlaylistBatch == SjCall("playlist_batch", playlist_batch(arg))

CallPlentriesBatch == SjCall("plentries_batch", plentries_batch(arg))

SjNext ==
  \/ CallKindToModel
  \/ CallTracks
  \/ CallPlaylists
  \/ CallPlaylistEntries
  \/ CallPlaylistEntry
  \/ CallPlaylistBatch
  \/ CallPlentriesBatch

SpecSJ == SjInit /\ [][SjNext]_vars

(***************************************************************************)
(* The calls of Metadata_Expectations and WC_Protocol.                     *)
(***************************************************************************)
\* The keys get_expectation is called with: every member's name, the
\* unprefixed spelling of gm_type, and names that no member has.
ProbeKeys ==
  DOMAIN Members
    \cup {<<"type">>, <<"foo">>, <<"", "rating">>, <<"", "foo">>, <<"", "", "type">>}

StringValue == [t |-> "string", v |-> "x"]

IntegerValue == [t |-> "integer", v |-> 1]

BooleanValue == [t |-> "boolean", v |-> TRUE]

\* A value of the type the expectation named n declares.
ValidValue(n) ==
  LET type == (CHOOSE cls \in Declared : cls.name = n).val_type
  IN  CASE type = "string" -> StringValue
        [] type = "integer" -> IntegerValue
        [] type = "boolean" -> BooleanValue

RequiredNames == {cls.name : cls \in {c \in Declared : ~c.optional}}

\* The ways a record received from the server departs from the record that
\* holds exactly the required fields: a field "foo" and a field "gm_type" that
\* no expectation is named after, the optional field disc, no id.
RecordMods == {"foo", "gm_type", "disc", "no_id"}

Record(mods) ==
  [t |-> "object",
   m |-> (IF "foo" \in mods THEN <<"foo">> :> IntegerValue ELSE <<>>)
           @@ (IF "gm_type" \in mods THEN <<"", "type">> :> IntegerValue ELSE <<>>)
           @@ (IF "disc" \in mods THEN <<"disc">> :> IntegerValue ELSE <<>>)
           @@ [n \in RequiredNames \ (IF "no_id" \in mods THEN {<<"id">>} ELSE {}) |->
                 ValidValue(n)]]

Records == {Record(mods) : mods \in SUBSET RecordMods}

\* A loadplaylist response that holds the given records.
LoadPlaylistResponse(records) ==
  [t |-> "object",
   m |-> (<<"continuation">> :> BooleanValue)
           @@ (<<"playlist">> :> [t |-> "array", v |-> records])
           @@ (<<"playlistId">> :> StringValue)
           @@ (<<"unavailableTrackCount">> :> IntegerValue)]

\* The items a partial song update may hold, and the updates: the items in
\* the order the dict iterates them, no key twice.
SongItems ==
  {<<<<"id">>, "s1">>, <<<<"rating">>, 1>>, <<<<"rating">>, 2>>, <<<<"foo">>, 7>>}

SongKeys == {item[1] : item \in SongItems}

Songs ==
  {song \in SeqsUpTo(SongItems, Cardinality(SongKeys)) :
     \A i, j \in 1..Len(song) : i # j => song[i][1] # song[j][1]}

WcInit ==
  /\ AtImport
  /\ NoInstance
  /\ \/ arg \in {[key |-> k] : k \in ProbeKeys}
     \/ arg = [noargs |-> TRUE]
     \/ arg \in {[song |-> r] : r \in Records}
     \/ arg \in {[playlist |-> q] : q \in SeqsUpTo(Records, MaxRecords)}
     \/ arg \in {[songs |-> q] : q \in SeqsUpTo(Songs, MaxSongs)}
  /\ op = "none"
  /\ ret = NoRet
  /\ log = <<>>

CallGetExpectation ==
  /\ op = "none" /\ "key" \in DOMAIN arg
  /\ op' = "get_expectation"
  /\ ret' = get_expectation(arg.key)
  /\ UNCHANGED <<arg, log, wc_state, mm_state>>

CallGetAllExpectations ==
  /\ op = "none" /\ "noargs" \in DOMAIN arg
  /\ op' = "get_all_expectations"
  /\ ret' = get_all_expectations
  /\ UNCHANGED <<arg, log, wc_state, mm_state>>

\* A record is validated against song_schema.
ValidateSong ==
  /\ op = "none" /\ "song" \in DOMAIN arg
  /\ op' = "validate_song"
  /\ ret' = validate(arg.song, song_schema)
  /\ UNCHANGED <<arg, log, wc_state, mm_state>>

\* A loadplaylist response is validated against the response schema that
\* loadplaylist.build_transaction returns.
ValidateLoadPlaylist ==
  /\ op = "none" /\ "playlist" \in DOMAIN arg
  /\ op' = "validate_loadplaylist"
  /\ ret' = validate(LoadPlaylistResponse(arg.playlist),
                     loadplaylist_build_transaction("p1").val.res)
  /\ UNCHANGED <<arg, log, wc_state, mm_state>>

\* The call leaves its outcome in ret and its warnings in the log.
Leaves(built) == ret' = built.ret /\ log' = log \o built.log

CallModifyEntries ==
  /\ op = "none" /\ "songs" \in DOMAIN arg
  /\ Leaves(modifyentries_build_transaction(arg.songs))
  /\ op' = "modifyentries"
  /\ UNCHANGED <<arg, wc_state, mm_state>>

WcNext ==
  \/ CallGetExpectation
  \/ CallGetAllExpectations
  \/ ValidateSong
  \/ ValidateLoadPlaylist
  \/ CallModifyEntries

SpecWC == WcInit /\ [][WcNext]_vars

(***************************************************************************)
(* The transaction builders called again and again, by callers that keep   *)
(* what was returned to them and edit it.                                  *)
(***************************************************************************)
MaxEntryIds == 3

\* The argument passed for a parameter, or the parameter's default.
Given(args, name, default) == IF name \in DOMAIN args THEN args[name] ELSE default

\* deletesong.build_transaction(song_ids, entry_ids, playlist_id), the
\* defaults filled in.
deletesong_build_transaction(song_ids, entryIds, playlist_id) ==
  Return([req |-> [songIds |-> song_ids, entryIds |-> entryIds,
                   listId |-> playlist_id],
          res |-> [type |-> "object",
                   properties |->
                     (<<"listId">> :> [type |-> "string"])
                       @@ (<<"deleteIds">> :>
                             [type |-> "array", items |-> [type |-> "string"]])]])

\* The arguments of deletesong.build_transaction: entry_ids and playlist_id
\* may be left out.
DeleteSongArgs ==
  {[song_ids |-> s] @@ e @@ p :
     s \in SeqsUpTo({"s1"}, 1),
     e \in Opt("entry_ids", {<<>>, <<"e1">>}),
     p \in Opt("playlist_id", {"p1"})}

PlaylistIds == {"p1", "p2"}

BuildInit ==
  /\ AtImport
  /\ NoInstance
  /\ arg = [noargs |-> TRUE]
  /\ op = "none"
  /\ ret = NoRet
  /\ log = <<>>

\* A call of deletesong.build_transaction: when entry_ids is left out, the
\* request returned holds the default list itself.
CallDeleteSong ==
  /\ \E a \in DeleteSongArgs :
       /\ arg' = a
       /\ ret' = deletesong_build_transaction(a.song_ids,
                                              Given(a, "entry_ids", entry_ids),
                                              Given(a, "playlist_id", "all"))
       /\ held' = IF "entry_ids" \in DOMAIN a THEN held ELSE held \cup {"entry_ids"}
  /\ op' = "deletesong"
  /\ UNCHANGED <<log, song_schema, entry_ids, mm_state>>

\* A call of loadplaylist.build_transaction: the schema returned holds
\* song_array, and so song_schema, itself.
CallLoadPlaylist ==
  /\ \E p \in PlaylistIds :
       /\ arg' = [playlist_id |-> p]
       /\ ret' = loadplaylist_build_transaction(p)
  /\ held' = held \cup {"song_schema"}
  /\ op' = "loadplaylist"
  /\ UNCHANGED <<log, song_schema, entry_ids, mm_state>>

\* A caller appends an id to the entryIds of a request it was returned.
CallerAppends ==
  /\ "entry_ids" \in held
  /\ Len(entry_ids) < MaxEntryIds
  /\ entry_ids' = Append(entry_ids, "e1")
  /\ op' = "caller"
  /\ UNCHANGED <<arg, ret, log, song_schema, held, mm_state>>

\* A caller allows additional properties in the items of the playlist of a
\* schema it was returned.
CallerOpens ==
  /\ "song_schema" \in held
  /\ song_schema["additionalProperties"] = FALSE
  /\ song_schema' = [song_schema EXCEPT !["additionalProperties"] = TRUE]
  /\ op' = "caller"
  /\ UNCHANGED <<arg, ret, log, entry_ids, held, mm_state>>

BuildNext == CallDeleteSong \/ CallLoadPlaylist \/ CallerAppends \/ CallerOpens

SpecBuild == BuildInit /\ [][BuildNext]_vars

(***************************************************************************)
(* protocol.py, MM_Protocol.__init__: the client address and the           *)
(* pre-filled protobuf messages.                                           *)
(*                                                                         *)
(* A string is the sequence of its characters.  A hardware address is the  *)
(* sequence of its 12 hexadecimal digits; uuid.getnode returns it as an    *)
(* int or as a long, depending on the platform and on where the address    *)
(* was found.                                                              *)
(***************************************************************************)
NodeDigits == 12

HexDigits == {"0", "a"}

Nodes == [1..NodeDigits -> HexDigits]

\* The digits of a number without its leading zeros; "0" for zero.
RECURSIVE StripZeros(_)
StripZeros(digits) ==
  IF Len(digits) > 1 /\ Head(digits) = "0" THEN StripZeros(Tail(digits))
  ELSE digits

\* hex(node): 0x, the digits, and L for a long.
hex(node, long) ==
  <<"0", "x">> \o StripZeros(node) \o (IF long THEN <<"L">> ELSE <<>>)

Min(a, b) == IF a < b THEN a ELSE b

\* s[a:b] for 0 <= a and 0 <= b.
Slice(s, a, b) ==
  IF a >= Min(b, Len(s)) THEN <<>> ELSE SubSeq(s, a + 1, Min(b, Len(s)))

\* s[2:-1].
StripEnds(s) == IF Len(s) < 1 THEN <<>> ELSE Slice(s, 2, Len(s) - 1)

\* sep.join(pieces).
RECURSIVE Join(_, _)
Join(pieces, sep) ==
  IF pieces = <<>> THEN <<>>
  ELSE IF Len(pieces) = 1 THEN pieces[1]
  ELSE pieces[1] \o sep \o Join(Tail(pieces), sep)

\* range(0, 10, 2).
Range_0_10_2 == <<0, 2, 4, 6, 8>>

\* self.mac as __init__ computes it from getmac().
Mac(node, long) ==
  Join([i \in 1..Len(Range_0_10_2) |->
          Slice(StripEnds(hex(node, long)), Range_0_10_2[i], Range_0_10_2[i] + 2)],
       <<":">>)

\* gethostname().
Hostname == <<"h", "o", "s", "t">>

\* The positions in heap of the messages that __init__ creates, in the
\* order it creates them.
upload_auth_filled == 1

client_state_filled == 2

upload_auth_response_filled == 3

client_state_response_filled == 4

metadata_request_filled == 5

metadata_response_filled == 6

\* A new, empty message of the class: metadata_pb2.<class>().
NewMessage(class) ==
  IF class = "MetadataRequest" THEN [type |-> class, tracks |-> <<>>]
  ELSE [type |-> class]

\* The messages of an instance whose address is m, as __init__ fills them.
Filled(m) ==
  << NewMessage("UploadAuth") @@ [address |-> m, hostname |-> Hostname],
     NewMessage("ClientState") @@ [address |-> m],
     NewMessage("UploadAuthResponse"),
     NewMessage("ClientStateResponse"),
     [address |-> m] @@ NewMessage("MetadataRequest"),
     NewMessage("MetadataResponse") >>

MacInit ==
  /\ AtImport
  /\ NoInstance
  /\ arg \in {[node |-> n, long |-> l] : n \in Nodes, l \in BOOLEAN}
  /\ op = "none"
  /\ ret = NoRet
  /\ log = <<>>

\* MM_Protocol(): __init__ on a machine whose getmac() gives arg.
MM_Protocol_init ==
  /\ op = "none" /\ "node" \in DOMAIN arg
  /\ op' = "__init__"
  /\ mac' = Mac(arg.node, arg.long)
  /\ heap' = Filled(Mac(arg.node, arg.long))
  /\ handed' = {}
  /\ ret' = Return(PyNone)
  /\ UNCHANGED <<arg, log, wc_state>>

MacNext == MM_Protocol_init

SpecMac == MacInit /\ [][MacNext]_vars

(***************************************************************************)
(* protocol.py, MM_Protocol: make_pb, make_metadata_request and            *)
(* make_upload_session_requests.                                           *)
(*                                                                         *)
(* A str is the sequence of its characters, an int a number; where a value *)
(* may be of either type it is a record tagged with py.  The files of the  *)
(* machine are a function of their names.                                  *)
(***************************************************************************)
MaxFiles == 2

PyInt(n) == [py |-> "int", v |-> n]

\* supported_filetypes = ("mp3"): the parentheses make no tuple, it is the
\* str "mp3".
supported_filetypes == <<"m", "p", "3">>

\* x in s for two strs: x occurs in s.
IsSubstring(x, s) ==
  \E i \in 0..(Len(s) - Len(x)) : SubSeq(s, i + 1, i + Len(x)) = x

\* The position of the first c in s; 0 when there is none.
IndexOf(s, c) ==
  IF \E i \in 1..Len(s) : s[i] = c
  THEN CHOOSE i \in 1..Len(s) : s[i] = c /\ \A j \in 1..(i - 1) : s[j] # c
  ELSE 0

\* s.split(c) for a separator of one character.
RECURSIVE Split(_, _)
Split(s, c) ==
  IF IndexOf(s, c) = 0 THEN <<s>>
  ELSE <<SubSeq(s, 1, IndexOf(s, c) - 1)>>
         \o Split(SubSeq(s, IndexOf(s, c) + 1, Len(s)), c)

DigitValue ==
  ("0" :> 0) @@ ("1" :> 1) @@ ("2" :> 2) @@ ("3" :> 3) @@ ("4" :> 4)
    @@ ("5" :> 5) @@ ("6" :> 6) @@ ("7" :> 7) @@ ("8" :> 8) @@ ("9" :> 9)

\* int(s) for a str of decimal digits.
RECURSIVE int(_)
int(s) ==
  IF Len(s) = 1 THEN DigitValue[s[1]]
  ELSE 10 * int(SubSeq(s, 1, Len(s) - 1)) + DigitValue[s[Len(s)]]

\* The file names: a with each of the extensions, and names with another
\* stem, a directory, two dots and no dot.
Extensions ==
  {<<"m", "p", "3">>, <<"m">>, <<"p", "3">>, <<"m", "p">>, <<>>, <<"o", "g", "g">>, <<"M", "P", "3">>, <<"m", "p", "3", "x">>}

Filenames ==
  {<<"a", ".">> \o e : e \in Extensions}
    \cup {<<"b", ".", "m", "p", "3">>, <<"d", "/", "c", ".", "m", "p", "3">>, <<"a", ".", "b", ".", "m", "p", "3">>, <<"m", "p", "3">>, <<"a">>}

\* The contents of each file: a.mp3 and b.mp3 are copies of one another.
ContentsOf(filename) ==
  IF filename \in {<<"a", ".", "m", "p", "3">>, <<"b", ".", "m", "p", "3">>} THEN <<"c", "1">>
  ELSE <<"c">> \o filename

\* The ID3 tags of each file, every tag a list of values: a.mp3 has a title,
\* d/c.mp3 has every tag that make_metadata_request reads, the others none.
TagsOf(filename) ==
  IF filename = <<"a", ".", "m", "p", "3">> THEN [title |-> <<<<"T">>>>]
  ELSE IF filename = <<"d", "/", "c", ".", "m", "p", "3">>
    THEN [title |-> <<<<"U">>>>, album |-> <<<<"A", "l">>>>, artist |-> <<<<"A", "r">>>>,
          composer |-> <<<<"C", "o">>>>, performer |-> <<<<"P", "e">>>>, genre |-> <<<<"G", "e">>>>,
          date |-> <<<<"2", "0", "1", "2", "-", "0", "5">>>>, bpm |-> <<<<"9", "0">>>>,
          tracknumber |-> <<<<"3", "/", "7">>>>, discnumber |-> <<<<"1">>>>]
  ELSE <<>>

\* MP3(filename, ID3 = EasyID3): every file of the machine is MPEG audio,
\* whatever its name.  info.length is held in thousandths of a second.
MP3(filename) ==
  [tags |-> TagsOf(filename),
   info |-> [bitrate |-> 128000 + Len(filename), length |-> 1500]]

\* os.path.getsize(filename).
getsize(filename) == 4000 + Len(ContentsOf(filename))

\* base64.encodestring(hashlib.md5(file_contents).digest())[:-3]: a text
\* that is the same for the same contents only.
ClientId(file_contents) == <<"#">> \o file_contents

\* utils.to_camel_case(pb_name), for the names of the six protocols.
to_camel_case ==
  [upload_auth |-> "UploadAuth", client_state |-> "ClientState",
   upload_auth_response |-> "UploadAuthResponse",
   client_state_response |-> "ClientStateResponse",
   metadata_request |-> "MetadataRequest",
   metadata_response |-> "MetadataResponse"]

\* getattr(self, pb_name + "_filled"): the position of the message.
FilledOf ==
  [upload_auth |-> upload_auth_filled, client_state |-> client_state_filled,
   upload_auth_response |-> upload_auth_response_filled,
   client_state_response |-> client_state_response_filled,
   metadata_request |-> metadata_request_filled,
   metadata_response |-> metadata_response_filled]

PbNames == DOMAIN FilledOf

\* pb.CopyFrom(other) on a new pb of the class of other: pb is cleared and
\* takes the value of every field of other.
CopyFrom(pb, other) == [f \in DOMAIN other |-> other[f]]

\* make_pb that hands out the pre-filled message itself.
make_pb_NoCopy(h, pb_name) == [heap |-> h, pb |-> FilledOf[pb_name]]

\* make_pb(pb_name) with the messages h: the messages afterwards, and the
\* new message, which is a copy of the pre-filled one.
make_pb(h, pb_name) ==
  [heap |-> Append(h, CopyFrom(NewMessage(to_camel_case[pb_name]),
                               h[FilledOf[pb_name]])),
   pb |-> Len(h) + 1]

\* The field of a track that each text tag fills.
TextTags ==
  [album |-> "album", artist |-> "artist", composer |-> "composer",
   albumArtist |-> "performer", genre |-> "genre"]

\* The fields that a tag of the form n or n/m fills: first |-> int(n), and
\* second |-> int(m) when there are two parts.
Numbered(audio, tag, first, second) ==
  IF tag \notin DOMAIN audio THEN <<>>
  ELSE (first :> int(Split(audio[tag][1], "/")[1]))
         @@ (IF Len(Split(audio[tag][1], "/")) = 2
             THEN second :> int(Split(audio[tag][1], "/")[2]) ELSE <<>>)

\* The fields of the track that make_metadata_request fills from the tags
\* audio of the file.
FromTags(audio, filename) ==
  [title |-> IF "title" \in DOMAIN audio THEN audio["title"][1]
             ELSE Last(Split(filename, "/"))]
    @@ [f \in {g \in DOMAIN TextTags : TextTags[g] \in DOMAIN audio} |->
          audio[TextTags[f]][1]]
    @@ (IF "date" \in DOMAIN audio
        THEN [year |-> int(Split(audio["date"][1], "-")[1])] ELSE <<>>)
    @@ (IF "bpm" \in DOMAIN audio
        THEN [beatsPerMinute |-> int(audio["bpm"][1])] ELSE <<>>)
    @@ Numbered(audio, "tracknumber", "track", "totalTracks")
    @@ Numbered(audio, "discnumber", "disc", "totalDiscs")

\* The track that the body of make_metadata_request's loop adds for
\* filename.
Track(filename) ==
  [id |-> ClientId(ContentsOf(filename)),
   fileSize |-> getsize(filename),
   bitrate |-> MP3(filename).info.bitrate \div 1000,
   duration |-> MP3(filename).info.length]
    @@ FromTags(MP3(filename).tags, filename)

\* Whether make_metadata_request's test lets the file name pass.
Supported(filename) == IsSubstring(Last(Split(filename, ".")), supported_filetypes)

\* The loop of make_metadata_request over the file names still to visit,
\* filling the message pb: the messages afterwards and the outcome.
RECURSIVE MetadataLoop(_, _, _, _)
MetadataLoop(h, pb, filenames, filemap) ==
  IF filenames = <<>>
  THEN [heap |-> h, ret |-> Return([metadata |-> pb, filemap |-> filemap])]
  ELSE IF ~Supported(Head(filenames))
    THEN [heap |-> h, ret |-> Raise("UnsupportedFiletype")]
  ELSE MetadataLoop([h EXCEPT ![pb].tracks = Append(@, Track(Head(filenames)))],
                    pb, Tail(filenames),
                    (ClientId(ContentsOf(Head(filenames))) :> Head(filenames))
                      @@ filemap)

\* The loop on the message that make_pb made.
OnNewMessage(made, filenames) == MetadataLoop(made.heap, made.pb, filenames, <<>>)

\* make_metadata_request(filenames) with the messages h.
make_metadata_request(h, filenames) ==
  OnNewMessage(make_pb(h, "metadata_request"), filenames)

DigitChar == <<"0", "1", "2", "3", "4", "5", "6", "7", "8", "9">>

\* str(n) for an int n >= 0: its decimal digits.
RECURSIVE Decimal(_)
Decimal(n) ==
  IF n < 10 THEN <<DigitChar[n + 1]>>
  ELSE Decimal(n \div 10) \o <<DigitChar[(n % 10) + 1]>>

\* repr of each unicode string of a list: u'...'.
Reprs(items) ==
  [i \in 1..Len(items) |-> <<"u", "'">> \o items[i] \o <<"'">>]

\* str that leaves every value as it is.
str_AsIs(value) == value

\* str(value): a str is itself, an int its decimal digits, a list its repr.
str(value) ==
  IF value.py = "str" THEN value
  ELSE IF value.py = "int" THEN PyStr(Decimal(value.v))
  ELSE PyStr(<<"[">> \o Join(Reprs(value.items), <<",", " ">>) \o <<"]">>)

\* The working directory of the process.
Cwd == <<"/", "w">>

\* os.path.basename(filename).
basename(filename) == Last(Split(filename, "/"))

\* os.path.abspath(filename) for a relative name without . and .. parts.
abspath(filename) == Cwd \o <<"/">> \o filename

\* audio["title"] if "title" in audio else filename.split(r'/')[-1].
UploadTitle(audio, filename) ==
  IF "title" \in DOMAIN audio THEN PyList(audio["title"])
  ELSE PyStr(Last(Split(filename, "/")))

\* The dict inlined that make_upload_session_requests builds for an upload
\* of the response.
Inlined(m, filename, upload, uploads) ==
  [title |-> PyStr(<<"j", "u", "m", "p", "e", "r", "-", "u", "p", "l", "o", "a", "d", "e", "r", "-", "t", "i", "t", "l", "e", "-", "4", "2">>),
   ClientId |-> PyStr(upload.id),
   ClientTotalSongCount |-> PyInt(Len(uploads)),
   CurrentTotalUploadedCount |-> PyStr(<<"0">>),
   CurrentUploadingTrack |-> UploadTitle(MP3(filename).tags, filename),
   ServerId |-> PyStr(upload.serverId),
   SyncNow |-> PyStr(<<"t", "r", "u", "e">>),
   TrackBitRate |-> PyInt(MP3(filename).info.bitrate),
   TrackDoNotRematch |-> PyStr(<<"f", "a", "l", "s", "e">>),
   UploaderId |-> PyStr(m)]

\* The keys of inlined in the order the loop over the dict visits them (an
\* order that the dict decides; the order written here is the source's).
InlinedKeys ==
  <<"title", "ClientId", "ClientTotalSongCount", "CurrentTotalUploadedCount",
    "CurrentUploadingTrack", "ServerId", "SyncNow", "TrackBitRate",
    "TrackDoNotRematch", "UploaderId">>

\* The fields that the loop over inlined appends.
InlinedFields(inlined) ==
  [i \in 1..Len(InlinedKeys) |->
     [inlined |-> [content |-> str(inlined[InlinedKeys[i]]),
                   name |-> InlinedKeys[i]]]]

\* The payload for the file and its inlined dict.
Payload(filename, inlined) ==
  [clientId |-> <<"J", "u", "m", "p", "e", "r", " ", "U", "p", "l", "o", "a", "d", "e", "r">>,
   createSessionRequest |->
     [fields |-> <<[external |-> [filename |-> basename(filename),
                                  name |-> abspath(filename),
                                  put |-> <<>>,
                                  size |-> getsize(filename)]]>>
                   \o InlinedFields(inlined)],
   protocolVersion |-> <<"0", ".", "8">>]

\* The tuple (filename, upload.serverId, payload) appended for an upload.
Session(m, filename, upload, uploads) ==
  [filename |-> filename, serverId |-> upload.serverId,
   payload |-> Payload(filename, Inlined(m, filename, upload, uploads))]

\* The loop of make_upload_session_requests from upload i on; filemap[upload.id]
\* raises KeyError for an id that filemap does not hold.
RECURSIVE SessionsLoop(_, _, _, _, _)
SessionsLoop(m, filemap, uploads, i, sessions) ==
  IF i > Len(uploads) THEN Return(PyList(sessions))
  ELSE IF uploads[i].id \notin DOMAIN filemap THEN Raise("KeyError")
  ELSE SessionsLoop(m, filemap, uploads, i + 1,
                    Append(sessions,
                           Session(m, filemap[uploads[i].id], uploads[i], uploads)))

\* make_upload_session_requests(filemap, server_response) of an instance
\* whose address is m.
make_upload_session_requests(m, filemap, server_response) ==
  SessionsLoop(m, filemap, server_response.response.uploads, 1, <<>>)

(***************************************************************************)
(* The calls of an MM_Protocol instance.                                   *)
(***************************************************************************)
MaxUploads == 2

MaxMessages == 8

\* The hardware address of the machine of the instance: a long.
TheNode == [i \in 1..NodeDigits |-> "a"]

\* MM_Protocol() has been constructed.
Instance ==
  /\ mac = Mac(TheNode, TRUE)
  /\ heap = Filled(Mac(TheNode, TRUE))
  /\ handed = {}

\* The uploads a MetadataResponse may list for a request built with
\* filemap: the ids of filemap and an id that it does not hold, each with a
\* server id.
Uploads(filemap) ==
  {[id |-> i, serverId |-> <<"S">> \o i] : i \in DOMAIN filemap \cup {<<"#", "?">>}}

\* The message that a returned value hands to the caller.
Handing(outcome) ==
  IF outcome.kind = "return" THEN {outcome.val.metadata} ELSE {}

\* A call of make_metadata_request with one of the lists.
MakeMetadataRequest(lists) ==
  /\ Len(heap) < MaxMessages
  /\ \E q \in lists :
       /\ arg' = [filenames |-> q]
       /\ heap' = make_metadata_request(heap, q).heap
       /\ ret' = make_metadata_request(heap, q).ret
       /\ handed' = handed \cup Handing(make_metadata_request(heap, q).ret)
  /\ op' = "make_metadata_request"
  /\ UNCHANGED <<log, mac, wc_state>>

\* A call of make_upload_session_requests with the filemap just returned
\* and a response of the server to that request.
CallMakeUploadSessionRequests ==
  /\ op = "make_metadata_request" /\ ret.kind = "return"
  /\ \E uploads \in SeqsUpTo(Uploads(ret.val.filemap), MaxUploads) :
       /\ arg' = [filemap |-> ret.val.filemap,
                  server_response |-> [response |-> [uploads |-> uploads]]]
       /\ ret' = make_upload_session_requests(
                   mac, ret.val.filemap, [response |-> [uploads |-> uploads]])
  /\ op' = "make_upload_session_requests"
  /\ UNCHANGED <<log, mm_state, wc_state>>

UploadInit ==
  /\ AtImport
  /\ Instance
  /\ arg = [noargs |-> TRUE]
  /\ op = "none"
  /\ ret = NoRet
  /\ log = <<>>

\* The first call of the instance is make_metadata_request, with any list
\* of file names.
CallMakeMetadataRequest ==
  /\ op = "none"
  /\ MakeMetadataRequest(SeqsUpTo(Filenames, MaxFiles))

UploadNext == CallMakeMetadataRequest \/ CallMakeUploadSessionRequests

SpecUpload == UploadInit /\ [][UploadNext]_vars

\* The lists of file names of the calls that follow one another: none, one
\* file, and a file followed by one that is not supported.
FewLists == {<<>>, <<<<"a", ".", "m", "p", "3">>>>, <<<<"a", ".", "m", "p", "3">>, <<"a", ".", "o", "g", "g">>>>}

\* A call of make_pb.
CallMakePb ==
  /\ Len(heap) < MaxMessages
  /\ \E n \in PbNames :
       /\ arg' = [pb_name |-> n]
       /\ heap' = make_pb(heap, n).heap
       /\ ret' = Return([pb |-> make_pb(heap, n).pb])
       /\ handed' = handed \cup {make_pb(heap, n).pb}
  /\ op' = "make_pb"
  /\ UNCHANGED <<log, mac, wc_state>>

\* One more call of make_metadata_request.
AgainMakeMetadataRequest == MakeMetadataRequest(FewLists)

\* A caller changes the address of a message it was handed.
CallerSetsAddress ==
  /\ \E pb \in handed :
       /\ "address" \in DOMAIN heap[pb]
       /\ heap[pb].address # <<"x">>
       /\ heap' = [heap EXCEPT ![pb].address = <<"x">>]
  /\ op' = "caller"
  /\ UNCHANGED <<arg, ret, log, mac, handed, wc_state>>

\* A caller adds a track to a message it was handed.
CallerAddsTrack ==
  /\ \E pb \in handed :
       /\ "tracks" \in DOMAIN heap[pb]
       /\ Len(heap[pb].tracks) < MaxFiles
       /\ heap' = [heap EXCEPT ![pb].tracks = Append(@, Track(<<"b", ".", "m", "p", "3">>))]
  /\ op' = "caller"
  /\ UNCHANGED <<arg, ret, log, mac, handed, wc_state>>

MMNext ==
  \/ CallMakePb
  \/ AgainMakeMetadataRequest
  \/ CallMakeUploadSessionRequests
  \/ CallerSetsAddress
  \/ CallerAddsTrack

SpecMM == UploadInit /\ [][MMNext]_vars

(***************************************************************************)
(* Claims about utils/jsarray.py, checked under SpecJs.                    *)
(***************************************************************************)
\* Whether token i is a comma that follows a comma or an opening bracket.
NeedsNull(toks, i) ==
  i > 1 /\ toks[i] = Comma /\ toks[i - 1] \in {Comma, LBracket}

\* The tokens with one null token put before each token that needs one.
WithNulls(toks) ==
  Flatten([i \in 1..Len(toks) |->
             IF NeedsNull(toks, i) THEN <<Null, toks[i]>> ELSE <<toks[i]>>])

\* C1: whenever to_json returns, the token list it built is the input's tokens
\* in order with one null token immediately before each comma whose preceding
\* token is a comma or an opening bracket, and nothing else inserted, removed
\* or changed; the text returned is the concatenation of that list.
C1_RepairInsertsNulls ==
  (op = "to_json" /\ ret.kind = "return") =>
    /\ RepairLoop(generate_tokens(arg).toks, <<>>) = WithNulls(generate_tokens(arg).toks)
    /\ ret.val = Flatten(WithNulls(generate_tokens(arg).toks))

\* C1 witness: to_json returned for an input with a comma right after an
\* opening bracket and a comma right after a comma.
C1_Witness ==
  /\ op = "to_json" /\ ret.kind = "return"
  /\ \E i, j \in 1..Len(generate_tokens(arg).toks) :
       /\ NeedsNull(generate_tokens(arg).toks, i)
       /\ NeedsNull(generate_tokens(arg).toks, j)
       /\ generate_tokens(arg).toks[i - 1] = LBracket
       /\ generate_tokens(arg).toks[j - 1] = Comma

\* The positions of s where ",," or "[," starts.
Elisions(s) ==
  {i \in 1..(Len(s) - 1) : s[i] \in {",", "["} /\ s[i + 1] = ","}

\* s corrected by hand: null written into every ",," and "[,".
ManualFix(s) ==
  Flatten([i \in 1..Len(s) |->
             IF (i - 1) \in Elisions(s) THEN Null \o <<s[i]>> ELSE <<s[i]>>])

\* The number of places of text where null is written.
NullCount(text) ==
  Cardinality({i \in 1..Len(text) : IsPrefix(Null, Drop(text, i - 1))})

\* The jsarray format: JSON arrays of numbers, strings and arrays in which an
\* element may be left out.  A parse is [ok, rest].
RECURSIVE JsValue(_), JsElems(_)
JsValue(s) ==
  IF s = <<>> THEN [ok |-> FALSE]
  ELSE IF Head(s) = "1" THEN [ok |-> TRUE, rest |-> Drop(s, NumberEnd(s, 1))]
  ELSE IF Head(s) = Quote
    THEN IF Find(s, Quote, 2) = 0 THEN [ok |-> FALSE]
         ELSE [ok |-> TRUE, rest |-> Drop(s, Find(s, Quote, 2))]
  ELSE IF Head(s) = "[" THEN JsElems(Tail(s))
  ELSE [ok |-> FALSE]

JsElems(s) ==
  IF s = <<>> THEN [ok |-> FALSE]
  ELSE IF Head(s) = "]" THEN [ok |-> TRUE, rest |-> Tail(s)]
  ELSE IF Head(s) = "," THEN JsElems(Tail(s))
  ELSE IF ~JsValue(s).ok \/ JsValue(s).rest = <<>> THEN [ok |-> FALSE]
  ELSE IF Head(JsValue(s).rest) = "," THEN JsElems(Tail(JsValue(s).rest))
  ELSE IF Head(JsValue(s).rest) = "]" THEN [ok |-> TRUE, rest |-> Tail(JsValue(s).rest)]
  ELSE [ok |-> FALSE]

IsJsArray(s) ==
  s # <<>> /\ Head(s) = "[" /\ JsValue(s).ok /\ JsValue(s).rest = <<>>

\* C2: for every jsarray input that contains ",," or "[,", loads returns (the
\* repaired text parses as strict JSON), the repair wrote exactly one null per
\* occurrence, and the value is that of the input corrected by hand.
C2_LoadsParsesEveryElision ==
  (op = "loads" /\ IsJsArray(arg) /\ Elisions(arg) # {}) =>
    /\ ret.kind = "return"
    /\ NullCount(to_json(arg).val) = Cardinality(Elisions(arg))
    /\ ret = json_loads(ManualFix(arg))

(***************************************************************************)
(* Claims about SJ_Protocol, checked under SpecSJ.                         *)
(***************************************************************************)
DecodeOps == {"tracks", "playlists", "playlist_entries", "playlist_entry"}

BatchOps == {"playlist_batch", "plentries_batch"}

\* Whether the response is an object whose kind is one of the six.
HasSupportedKind(response) ==
  /\ response.t = "object"
  /\ "kind" \in DOMAIN response.m
  /\ response.m["kind"] \in SupportedKinds

\* The model class each supported kind stands for.
ModelOfKind ==
  (TrackKind :> "Track") @@ (TrackListKind :> "TrackList")
    @@ (PlaylistKind :> "Playlist") @@ (PlaylistListKind :> "PlaylistList")
    @@ (PlaylistEntryKind :> "PlaylistEntry")
    @@ (PlaylistEntryListKind :> "PlaylistEntryList")

\* C3: _kind_to_model returns the model class of each of the six supported
\* kinds and raises for every other kind string, and each decode function
\* (tracks, playlists, playlist_entries, playlist_entry) raises, returning no
\* value, for every response whose kind is not one of the six.
C3_KindDispatchFailsClosed ==
  /\ (op = "_kind_to_model" /\ arg.m["kind"] \in SupportedKinds) =>
       ret = Return(PyClass(ModelOfKind[arg.m["kind"]]))
  /\ (op = "_kind_to_model" /\ arg.m["kind"] \notin SupportedKinds) =>
       ret.kind = "raise"
  /\ (op \in DecodeOps /\ ~HasSupportedKind(arg)) => ret.kind = "raise"

\* C3 witness: a decode function was called on an object whose kind string is
\* none of the six, and raised.
C3_Witness ==
  /\ op = "playlists"
  /\ arg.t = "object" /\ "kind" \in DOMAIN arg.m /\ arg.m["kind"] = "sj#album"
  /\ ret.kind = "raise"

\* The entity families: the decode functions of each, the kinds of its list
\* and of its item, and the class of its item.
Families ==
  {[ops |-> {"tracks"}, listKind |-> TrackListKind, itemKind |-> TrackKind,
    item |-> "Track"],
   [ops |-> {"playlists"}, listKind |-> PlaylistListKind, itemKind |-> PlaylistKind,
    item |-> "Playlist"],
   [ops |-> {"playlist_entries", "playlist_entry"}, listKind |-> PlaylistEntryListKind,
    itemKind |-> PlaylistEntryKind, item |-> "PlaylistEntry"]}

\* C4: called on a response whose kind is the list variant of its family (and
\* that carries the items), a decode function returns the list of the item
\* records, one record of the family's item class per item in order, not the
\* list instance; on the single-item variant it returns the one record of the
\* item class.
C4_ListKindGivesItems ==
  \A f \in Families :
    (op \in f.ops /\ arg.t = "object" /\ "kind" \in DOMAIN arg.m) =>
      /\ (arg.m["kind"] = f.listKind /\ "items" \in DOMAIN arg.m) =>
           /\ ret.kind = "return"
           /\ ret.val.py = "list"
           /\ Len(ret.val.items) = Len(arg.m["items"])
           /\ \A i \in 1..Len(arg.m["items"]) :
                ret.val.items[i] = [py |-> f.item, json |-> arg.m["items"][i]]
      /\ arg.m["kind"] = f.itemKind =>
           ret = Return([py |-> f.item, json |-> arg.m])

\* C4 witness: tracks was called on a track-list response of two items and
\* returned a list.
C4_Witness ==
  /\ op = "tracks"
  /\ arg.t = "object" /\ "kind" \in DOMAIN arg.m /\ arg.m["kind"] = TrackListKind
  /\ "items" \in DOMAIN arg.m /\ Len(arg.m["items"]) = 2
  /\ ret.kind = "return" /\ ret.val.py = "list"

\* Whether the response is an object with a mutate_response list.
HasMutations(response) ==
  response.t = "object" /\ "mutate_response" \in DOMAIN response.m

\* Whether the entry carries a response_code that is not "OK".
NotOk(mutation) ==
  "response_code" \in DOMAIN mutation /\ mutation["response_code"] # "OK"

\* C5: when any entry of mutate_response, at any position, has a
\* response_code other than "OK", the reconciliation raises: no ids are
\* returned, those of the entries before the failing one included.
C5_AllOrNothing ==
  (/\ op \in BatchOps /\ HasMutations(arg)
   /\ \E i \in 1..Len(arg.m["mutate_response"]) : NotOk(arg.m["mutate_response"][i]))
    => ret.kind = "raise"

\* C5 witness: the batch's first entry is OK and carries an id, a later entry
\* is not OK, and the reconciliation raised.
C5_Witness ==
  /\ op = "playlist_batch" /\ HasMutations(arg)
  /\ Len(arg.m["mutate_response"]) >= 2
  /\ arg.m["mutate_response"][1] = ("response_code" :> "OK") @@ ("id" :> "a")
  /\ \E i \in 2..Len(arg.m["mutate_response"]) : NotOk(arg.m["mutate_response"][i])
  /\ ret.kind = "raise"

IsOkEntry(mutation) ==
  "response_code" \in DOMAIN mutation /\ mutation["response_code"] = "OK"

CarriesId(mutation) == "id" \in DOMAIN mutation

\* The ids of the entries that carry one, in the order of the entries.
IdsInOrder(mutations) ==
  [i \in 1..Len(SelectSeq(mutations, CarriesId)) |->
     SelectSeq(mutations, CarriesId)[i]["id"]]

\* C6: the reconciliation returns True when the response has no
\* mutate_response key, and, when every entry is "OK", the list of the ids of
\* exactly the entries that carry an id, in the order of the entries.
C6_MatchesReference ==
  (op \in BatchOps /\ arg.t # "invalid") =>
    /\ ~HasMutations(arg) => ret = Return(PyTrue)
    /\ (/\ HasMutations(arg)
        /\ \A i \in 1..Len(arg.m["mutate_response"]) :
             IsOkEntry(arg.m["mutate_response"][i]))
         => ret = Return(PyList(IdsInOrder(arg.m["mutate_response"])))

\* C6 witness: every entry is OK, the ids are a, then none, then b, and the
\* list a, b was returned.
C6_Witness ==
  /\ op = "plentries_batch" /\ HasMutations(arg)
  /\ arg.m["mutate_response"] =
       << ("response_code" :> "OK") @@ ("id" :> "a"),
          ("response_code" :> "OK"),
          ("response_code" :> "OK") @@ ("id" :> "b") >>
  /\ ret = Return(PyList(<<"a", "b">>))

(***************************************************************************)
(* Claims about Metadata_Expectations and WC_Protocol, checked under       *)
(* SpecWC.                                                                 *)
(***************************************************************************)
\* The field names the registry declares, as the server spells them.
ExpectedFieldNames ==
  {<<"rating">>, <<"composer">>, <<"album">>, <<"albumArtist">>,
   <<"genre">>, <<"name">>, <<"artist">>, <<"disc">>,
   <<"year">>, <<"track">>, <<"totalTracks">>, <<"playCount">>,
   <<"totalDiscs">>, <<"durationMillis">>, <<"comment">>, <<"id">>,
   <<"deleted">>, <<"creationDate">>, <<"albumArtUrl">>, <<"type">>,
   <<"beatsPerMinute">>, <<"url">>, <<"playlistEntryId">>, <<"title">>,
   <<"titleNorm">>, <<"albumArtistNorm">>, <<"albumNorm">>, <<"artistNorm">>,
   <<"lastPlayed">>}

ValueTypes ==
  {"string", "integer", "number", "boolean", "object", "array", "null", "any"}

\* What the member bound to name n stands for: itself when it is an
\* expectation class, None otherwise.
ExpectationOrNone(n) ==
  IF Members[n].py = "class" /\ Members[n].base = "_Metadata_Expectation"
  THEN Members[n] ELSE PyNone

\* C7: get_expectation(key) never raises: it returns the expectation bound to
\* the literal name, else the one bound to the gm_-prefixed name, and None
\* for a key that has no expectation (absent under both spellings, or bound
\* to something that is no expectation).
C7_GetExpectationNeverRaises ==
  (op = "get_expectation") =>
    ret = Return(IF arg.key \in DOMAIN Members THEN ExpectationOrNone(arg.key)
                 ELSE IF GmPrefixed(arg.key) \in DOMAIN Members
                   THEN ExpectationOrNone(GmPrefixed(arg.key))
                 ELSE PyNone)

\* C8: get_all_expectations() returns a mapping whose keys are exactly the
\* declared field names with the gm_ prefix removed, one entry per declared
\* expectation (no two collapse onto one key), every entry an expectation
\* class filed under its own canonical name, with a val_type of the
\* enumerated set.
C8_AllExpectationsOnePerField ==
  (op = "get_all_expectations") =>
    /\ ret.kind = "return"
    /\ DOMAIN ret.val = ExpectedFieldNames
    /\ Cardinality(DOMAIN ret.val) = Cardinality(Declared)
    /\ \A n \in DOMAIN ret.val :
         /\ ret.val[n].py = "class"
         /\ ret.val[n].base = "_Metadata_Expectation"
         /\ ret.val[n].name = n
         /\ ret.val[n].clsname \in {n, GmPrefixed(n)}
         /\ ret.val[n].val_type \in ValueTypes

\* C8 witness: get_all_expectations returned, and files the class gm_type
\* under type.
C8_Witness ==
  /\ op = "get_all_expectations" /\ ret.kind = "return"
  /\ <<"type">> \in DOMAIN ret.val
  /\ ret.val[<<"type">>].clsname = <<"", "type">>

\* Whether the record holds a field name that the registry does not declare.
HasUnknownField(record) == ~(DOMAIN record.m \subseteq ExpectedFieldNames)

\* C9: the properties of song_schema are exactly the keys of
\* get_all_expectations(), additional properties are forbidden, and
\* validation rejects every record that holds a field name absent from the
\* registry, alone or as an item of the song_array of a response schema.
C9_ClosedWorldSchema ==
  /\ "additionalProperties" \in DOMAIN song_schema
  /\ song_schema["additionalProperties"] = FALSE
  /\ (op = "get_all_expectations") =>
       DOMAIN song_schema["properties"] = DOMAIN ret.val
  /\ (op = "validate_song" /\ HasUnknownField(arg.song)) => ret.kind = "raise"
  /\ (/\ op = "validate_loadplaylist"
      /\ \E i \in 1..Len(arg.playlist) : HasUnknownField(arg.playlist[i]))
       => ret.kind = "raise"

\* C9 witness: a loadplaylist response was rejected whose playlist holds a
\* record with exactly the required fields and a record that differs from it
\* by the field foo alone.
C9_Witness ==
  /\ op = "validate_loadplaylist"
  /\ arg.playlist = <<Record({}), Record({"foo"})>>
  /\ ret.kind = "raise"

\* The number of items of the songs that set rating outside 0, 1, 5.
UnallowedCount(songs) ==
  Cardinality({p \in (1..Len(songs)) \X (1..Cardinality(SongKeys)) :
                 /\ p[2] <= Len(songs[p[1]])
                 /\ songs[p[1]][p[2]][1] = <<"rating">>
                 /\ songs[p[1]][p[2]][2] \notin {0, 1, 5}})

\* C10: for every list of partial updates whose keys are registry fields,
\* modifyentries.build_transaction returns the request {"entries": songs}
\* with its response schema, and logs one warning per rating outside 0, 1, 5
\* and none otherwise: an unallowed value never makes the build fail.
C10_WarnAndContinue ==
  (/\ op = "modifyentries"
   /\ \A i \in 1..Len(arg.songs) : \A k \in 1..Len(arg.songs[i]) :
        arg.songs[i][k][1] \in ExpectedFieldNames)
    => /\ ret.kind = "return"
       /\ ret.val.req = [entries |-> arg.songs]
       /\ ret.val.res["properties"][<<"songs">>] = song_array
       /\ Len(log) = UnallowedCount(arg.songs)

(***************************************************************************)
(* Claims about the errors of loads and the outcomes of the decode         *)
(* functions.                                                              *)
(***************************************************************************)
\* C12: when the repaired text does not parse as JSON, loads raises a
\* ParseError that carries the original, unrepaired input string.
C12_ParseErrorCarriesInput ==
  (op = "loads" /\ to_json(arg).kind = "return"
     /\ json_loads(to_json(arg).val).kind = "raise") =>
    ret = [kind |-> "raise", exc |-> "ParseError", input |-> arg]

\* The classes of the values a decode function of the family may return.
OwnFamily(f) == ret.val.py = f.item
                  \/ (ret.val.py = "list"
                      /\ \A i \in 1..Len(ret.val.items) : ret.val.items[i].py = f.item)

\* C18: a decode function either raises or returns a record or an item list
\* of its own entity family; for a response whose kind is one of the six but
\* of another family it does not return None.
C18_OwnFamilyOrRaise ==
  \A f \in Families :
    (op \in f.ops /\ ret.kind = "return") => (ret.val # PyNone /\ OwnFamily(f))

(***************************************************************************)
(* Claims about the transaction builders, checked under SpecBuild.         *)
(***************************************************************************)
\* C17: in any sequence of build_transaction calls, with callers free to
\* edit what they were returned, a build call returns the (request, schema)
\* that it would return as the first call in a fresh process (defaults and
\* the shared song_array included), and no build call changes the objects
\* the process shares.
C17_BuildersArePure ==
  /\ [](op = "deletesong" =>
          ret = deletesong_build_transaction(arg.song_ids,
                                             Given(arg, "entry_ids", <<"">>),
                                             Given(arg, "playlist_id", "all")))
  /\ [](op = "loadplaylist" =>
          /\ ret.kind = "return"
          /\ ret.val.req = [id |-> arg.playlist_id]
          /\ ret.val.res["properties"][<<"playlist">>] =
               [type |-> "array", items |-> SongSchemaAtImport])
  /\ [][op' \in {"deletesong", "loadplaylist"} =>
          UNCHANGED <<song_schema, entry_ids>>]_vars

(***************************************************************************)
(* Claims about MM_Protocol.                                               *)
(***************************************************************************)
\* The six octets of a hardware address, two digits each, joined by colons.
Octets(node) ==
  Join([i \in 1..6 |-> SubSeq(node, 2 * i - 1, 2 * i)], <<":">>)

\* C16: for every 48-bit hardware address, the address string that
\* __init__ computes and fills into the messages is the six two-digit
\* lower-case hexadecimal octets of the address joined by colons, leading
\* zeros included.
C16_MacIsSixOctets ==
  (op = "__init__") =>
    /\ mac = Octets(arg.node)
    /\ \A pb \in {upload_auth_filled, client_state_filled, metadata_request_filled} :
         heap[pb].address = Octets(arg.node)

\* Whether the text after a dot of the file name is mp3: its extension is.
HasMp3Extension(filename) ==
  \E i \in 1..Len(filename) :
    filename[i] = "." /\ SubSeq(filename, i + 1, Len(filename)) = <<"m", "p", "3">>

\* C11: make_metadata_request raises UnsupportedFiletype exactly when the
\* extension (the text after the last dot) of one of the file names is not
\* mp3, the one supported format; it accepts a name only when its extension
\* is exactly mp3.
C11_OnlyMp3Accepted ==
  (op = "make_metadata_request") =>
    ((ret = Raise("UnsupportedFiletype"))
       <=> (\E i \in 1..Len(arg.filenames) : ~HasMp3Extension(arg.filenames[i])))

\* The tracks of the message that make_metadata_request returned.
ReturnedTracks == heap[ret.val.metadata].tracks

\* C13: after any sequence of make_pb, make_metadata_request and
\* make_upload_session_requests calls, with callers editing the messages
\* they were handed, the pre-filled messages hold the values __init__ gave
\* them, and every message handed out is a new message, none of the
\* pre-filled ones and none handed out before, that holds a copy of its
\* pre-filled message (and, from make_metadata_request, the tracks of that
\* call's files alone).
C13_SeedsAreCopied ==
  /\ [](SubSeq(heap, 1, Len(Filled(mac))) = Filled(mac))
  /\ [](op = "make_pb" =>
          /\ ret.val.pb > Len(Filled(mac))
          /\ heap[ret.val.pb] = Filled(mac)[FilledOf[arg.pb_name]])
  /\ []((op = "make_metadata_request" /\ ret.kind = "return") =>
          /\ ret.val.metadata > Len(Filled(mac))
          /\ ReturnedTracks = [i \in 1..Len(arg.filenames) |-> Track(arg.filenames[i])]
          /\ [f \in DOMAIN heap[ret.val.metadata] \ {"tracks"} |->
                heap[ret.val.metadata][f]]
               = [f \in DOMAIN Filled(mac)[metadata_request_filled] \ {"tracks"} |->
                    Filled(mac)[metadata_request_filled][f]])
  /\ [][(op' = "make_pb" => ret'.val.pb \notin handed)
          /\ ((op' = "make_metadata_request" /\ ret'.kind = "return")
                => ret'.val.metadata \notin handed)]_vars

\* C13 witness: a metadata request was returned with one track while a
\* message handed out earlier holds an address and a track that a caller
\* put there.
C13_Witness ==
  /\ op = "make_metadata_request" /\ ret.kind = "return"
  /\ Len(ReturnedTracks) = 1
  /\ \E pb \in handed :
       /\ pb # ret.val.metadata
       /\ "tracks" \in DOMAIN heap[pb]
       /\ heap[pb].address = <<"x">>
       /\ Len(heap[pb].tracks) = MaxFiles

\* C14: after make_metadata_request(filenames) returns, the filemap and the
\* tracks of the message correspond 1:1: the id of every track is a key of
\* the map, the map sends it to the file name the track was built from, no
\* two tracks share an id, and the map has as many entries as the message
\* has tracks, also when two files have the same contents or a name is
\* repeated.
C14_FilemapOneToOne ==
  (op = "make_metadata_request" /\ ret.kind = "return") =>
    /\ Len(ReturnedTracks) = Len(arg.filenames)
    /\ \A i \in 1..Len(ReturnedTracks) :
         /\ ReturnedTracks[i].id \in DOMAIN ret.val.filemap
         /\ ret.val.filemap[ReturnedTracks[i].id] = arg.filenames[i]
    /\ \A i, j \in 1..Len(ReturnedTracks) :
         i # j => ReturnedTracks[i].id # ReturnedTracks[j].id
    /\ Cardinality(DOMAIN ret.val.filemap) = Len(ReturnedTracks)

\* The uploads of the response that make_upload_session_requests was given.
GivenUploads == arg.server_response.response.uploads

\* The fields of the payload of session i.
FieldsOf(i) == ret.val.items[i].payload.createSessionRequest.fields

\* The positions of the fields of session i that hold key.
Holding(i, key) == {k \in 1..Len(FieldsOf(i)) : key \in DOMAIN FieldsOf(i)[k]}

\* The content of the inlined field of session i whose name is name.
ContentOf(i, name) ==
  FieldsOf(i)[CHOOSE k \in Holding(i, "inlined") :
                FieldsOf(i)[k].inlined.name = name].inlined.content

\* Whether make_upload_session_requests returned one request per upload of
\* the response, in order, each with one external field (base name,
\* absolute path, size) and n inlined fields of distinct names, every
\* inlined content a str, that of a number its decimal text.
OneRequestPerUpload(n) ==
  /\ ret.kind = "return"
  /\ Len(ret.val.items) = Len(GivenUploads)
  /\ \A i \in 1..Len(GivenUploads) :
       /\ ret.val.items[i].serverId = GivenUploads[i].serverId
       /\ ret.val.items[i].filename = arg.filemap[GivenUploads[i].id]
       /\ Len(FieldsOf(i)) = 1 + n
       /\ Cardinality(Holding(i, "external")) = 1
       /\ Cardinality(Holding(i, "inlined")) = n
       /\ Cardinality({FieldsOf(i)[k].inlined.name : k \in Holding(i, "inlined")}) = n
       /\ \A k \in Holding(i, "external") :
            /\ FieldsOf(i)[k].external.filename
                 = Last(Split(ret.val.items[i].filename, "/"))
            /\ FieldsOf(i)[k].external.name
                 = Cwd \o <<"/">> \o ret.val.items[i].filename
            /\ FieldsOf(i)[k].external.size = getsize(ret.val.items[i].filename)
       /\ \A k \in Holding(i, "inlined") : FieldsOf(i)[k].inlined.content.py = "str"
       /\ int(ContentOf(i, "ClientTotalSongCount").v) = Len(GivenUploads)
       /\ int(ContentOf(i, "TrackBitRate").v)
            = MP3(ret.val.items[i].filename).info.bitrate
       /\ ContentOf(i, "ClientId").v = GivenUploads[i].id

====
